---------------------------- MODULE Spec2Model ----------------------------
(***************************************************************************)
(* Model of ropgen.py: the ROP class (region resolution, the sliding       *)
(* window scan, the tail classifier check_end, the gadget store and the    *)
(* interesting-gadget selector) together with the report it writes.        *)
(*                                                                         *)
(* Text is modelled as a sequence of one-character strings so that the     *)
(* regular expressions of the source, its "; ".join and its address        *)
(* formatting are computed rather than assumed.                            *)
(***************************************************************************)
EXTENDS Integers, Sequences, FiniteSets, TLC

(***************************************************************************)
(* Bounds of the model.                                                    *)
(***************************************************************************)
\* number of instruction units (bytes on x86/x64, words on arm/aarch64) in a generated file
MaxLen == 3
\* number of times one process builds a ROP object and calls initialize()
MaxRuns == 2

(***************************************************************************)
(* Program constants.                                                      *)
(***************************************************************************)
\* file_content[i:i+20]
WindowSize == 20
\* the width of the format specification #08x
FormatWidth == 8

None == "None"

(***************************************************************************)
(* Sequence helpers.                                                       *)
(***************************************************************************)
Last(s) == s[Len(s)]

\* Python slice s[lo:hi] with 0-based lo, hi >= lo >= 0
Slice(s, lo, hi) == SubSeq(s, lo + 1, IF hi <= Len(s) THEN hi ELSE Len(s))

RECURSIVE Concat(_)
\* concatenation of a sequence of sequences
Concat(ss) == IF ss = <<>> THEN <<>> ELSE Head(ss) \o Concat(Tail(ss))

RECURSIVE Repeat(_, _)
Repeat(u, n) == IF n <= 0 THEN <<>> ELSE u \o Repeat(u, n - 1)

Range(s) == {s[k] : k \in 1..Len(s)}

\* x in s (Python: element of a list or of dict.values())
In(x, s) == \E k \in 1..Len(s) : s[k] = x

\* needle in line (Python: bytes substring test)
Contains(line, needle) ==
  \E k \in 0..(Len(line) - Len(needle)) : SubSeq(line, k + 1, k + Len(needle)) = needle

RECURSIVE Strip(_)
\* str.strip(): leading and trailing blanks removed
Strip(s) ==
  IF s = <<>> THEN s
  ELSE IF Head(s) = " " THEN Strip(Tail(s))
  ELSE IF Last(s) = " " THEN Strip(SubSeq(s, 1, Len(s) - 1))
  ELSE s

RECURSIVE Join(_, _)
\* sep.join(parts)
Join(sep, parts) ==
  IF parts = <<>> THEN <<>>
  ELSE IF Len(parts) = 1 THEN parts[1]
  ELSE parts[1] \o sep \o Join(sep, Tail(parts))

(***************************************************************************)
(* re.match for the subset of the regular-expression syntax the source     *)
(* uses: literals, escapes, ".", "^", "$", character classes, one level of *)
(* groups and the quantifiers * + ? (a "?" after a quantifier makes it     *)
(* lazy, which does not change whether a match exists).                    *)
(* Ends(p, lo, hi, s, i) is the set of subject positions at which a match  *)
(* of p[lo..hi] that starts at position i of s can end.                    *)
(***************************************************************************)
Quantifiers == {"*", "+", "?"}

\* the position of the first c after lo: closes the group or class opened at lo
CloseOf(p, lo, c) ==
  CHOOSE k \in (lo + 1)..Len(p) : p[k] = c /\ \A m \in (lo + 1)..(k - 1) : p[m] # c

\* last pattern position of the atom that starts at lo
AtomEnd(p, lo) ==
  IF p[lo] = "\\" THEN lo + 1
  ELSE IF p[lo] = "(" THEN CloseOf(p, lo, ")")
  ELSE IF p[lo] = "[" THEN CloseOf(p, lo, "]")
  ELSE lo

\* the quantifier that follows the atom ending at ae ("1" when there is none)
QuantOf(p, ae, hi) ==
  IF ae < hi /\ p[ae + 1] \in Quantifiers THEN p[ae + 1] ELSE "1"

\* first pattern position after the atom ending at ae and its quantifier
AfterAtom(p, ae, hi) ==
  IF QuantOf(p, ae, hi) = "1" THEN ae + 1
  ELSE IF ae + 1 < hi /\ p[ae + 2] = "?" THEN ae + 3
  ELSE ae + 2

RECURSIVE Ends(_, _, _, _, _)
RECURSIVE One(_, _, _, _, _)
RECURSIVE Star(_, _, _, _, _)

\* one occurrence of the atom p[lo..ae] at subject position i
One(p, lo, ae, s, i) ==
  IF p[lo] = "(" THEN Ends(p, lo + 1, ae - 1, s, i)
  ELSE IF p[lo] = "^" THEN (IF i = 1 THEN {i} ELSE {})
  ELSE IF p[lo] = "$" THEN (IF i = Len(s) + 1 THEN {i} ELSE {})
  ELSE IF i > Len(s) THEN {}
  ELSE IF p[lo] = "\\" THEN (IF s[i] = p[lo + 1] THEN {i + 1} ELSE {})
  ELSE IF p[lo] = "[" THEN
    (IF \E k \in (lo + 1)..(ae - 1) : p[k] = s[i] THEN {i + 1} ELSE {})
  ELSE IF p[lo] = "." THEN (IF s[i] # "\n" THEN {i + 1} ELSE {})
  ELSE (IF s[i] = p[lo] THEN {i + 1} ELSE {})

\* zero or more occurrences of the atom from any position of from
Star(p, lo, ae, s, from) ==
  LET more == UNION {One(p, lo, ae, s, i) : i \in from} \ from
  IN  IF more = {} THEN from ELSE Star(p, lo, ae, s, from \cup more)

Ends(p, lo, hi, s, i) ==
  IF lo > hi THEN {i}
  ELSE
    LET ae == AtomEnd(p, lo)
        q  == QuantOf(p, ae, hi)
        after ==
          IF q = "1" THEN One(p, lo, ae, s, i)
          ELSE IF q = "?" THEN One(p, lo, ae, s, i) \cup {i}
          ELSE IF q = "*" THEN Star(p, lo, ae, s, {i})
          ELSE Star(p, lo, ae, s, One(p, lo, ae, s, i))
    IN  UNION {Ends(p, AfterAtom(p, ae, hi), hi, s, j) : j \in after}

\* re.match(pattern, string) is not None
re_match(pattern, string) == Ends(pattern, 1, Len(pattern), string, 1) # {}

(***************************************************************************)
(* Class attributes of ROP.                                                *)
(***************************************************************************)
Archs == {"x64", "x86", "arm", "aarch64"}

\* machine token of the readelf header -> architecture; other tokens raise KeyError
supported_archs ==
  [t \in {"x86-64", "80386", "arm", "aarch64"} |->
     CASE t = "x86-64" -> "x64" [] t = "80386" -> "x86"
       [] t = "arm" -> "arm" [] t = "aarch64" -> "aarch64"]

\* the first two string literals have no comma between them: one pattern
patterns_x86 == << <<"^","(","p","o","p"," ","e",".",".",";"," ",")","*","r","e","t">> \o <<"^","(","p","o","p"," ","e",".",".",";"," ",")","c","a","l","l"," ","e",".",".">>,
                   <<"^","(","p","o","p"," ","e",".",".",";"," ",")","j","m","p"," ","e",".",".">>,
                   <<"^","m","o","v"," ","d","w","o","r","d"," ","p","t","r"," ","\\","[","e",".",".","\\","]",","," ","e",".",".",";"," ","r","e","t">> >>

patterns_x64 == << <<"^","(","p","o","p"," ","e",".",".",";"," ",")","*","r","e","t">>,
                   <<"^","(","p","o","p"," ","r",".",".",";"," ",")","*","r","e","t">>,
                   <<"^","m","o","v"," ","[","d","q","]","w","o","r","d"," ","p","t","r"," ","\\","[","r",".",".","\\","]",","," ","r",".",".",";"," ","r","e","t">>,
                   <<"^","m","o","v"," ","[","d","q","]","w","o","r","d"," ","p","t","r"," ","\\","[","r",".",".","\\","]",","," ","e",".",".",";"," ","r","e","t">> >>

patterns_arm == << <<"^","p","o","p"," ","{","(",".",".",".","?",","," ",")","+","p","c","}">>,
                   <<"^","b","l","?","x","?"," ",".",".",".","?","$">>,
                   <<"^","s","t","r",".","*","?"," ","r",".",".","?",","," ","\\","[","r",".",".","?","\\","]">> >>

patterns_aarch64 == None

(***************************************************************************)
(* check_end: does this instruction end a gadget on this architecture?     *)
(***************************************************************************)
\* check_end without the dispatch on the architecture: every rule applies
check_end_any_arch(arch, instruction) ==
     instruction = <<"r","e","t">> \/ instruction = <<"s","y","s","c","a","l","l">> \/ instruction = <<"i","n","t"," ","0","x","8","0">>
  \/ re_match(<<"c","a","l","l"," ","r",".",".","?">>, instruction)
  \/ re_match(<<"c","a","l","l"," ","e",".",".">>, instruction)
  \/ re_match(<<"p","o","p"," ","{",".","*","?",","," ","p","c","}">>, instruction)
  \/ re_match(<<"s","[","v","w","]","[","c","i","]"," ",".","*","?">>, instruction)
  \/ re_match(<<"b","l","?","x","?"," ",".",".","$">>, instruction)

check_end(arch, instruction) ==
  IF arch = "x64" THEN
       instruction = <<"r","e","t">> \/ instruction = <<"s","y","s","c","a","l","l">>
    \/ re_match(<<"c","a","l","l"," ","r",".",".","?">>, instruction)
  ELSE IF arch = "x86" THEN
       instruction = <<"r","e","t">> \/ instruction = <<"i","n","t"," ","0","x","8","0">>
    \/ re_match(<<"c","a","l","l"," ","e",".",".">>, instruction)
  ELSE IF arch = "arm" THEN
       re_match(<<"p","o","p"," ","{",".","*","?",","," ","p","c","}">>, instruction)
    \/ re_match(<<"s","[","v","w","]","[","c","i","]"," ",".","*","?">>, instruction)
    \/ re_match(<<"b","l","?","x","?"," ",".",".","$">>, instruction)
  ELSE IF arch = "aarch64" THEN
       re_match(<<"s","[","v","w","]","[","c","i","]"," ",".","*","?">>, instruction)
    \/ instruction = <<"r","e","t">>
    \/ re_match(<<"p","o","p"," ","{",".","*","?",","," ","p","c","}">>, instruction)
  ELSE FALSE

(***************************************************************************)
(* The disassembler (capstone) on the instruction encodings the generated  *)
(* files are built from.  Disasm1 is the first instruction of a window;    *)
(* a window the engine cannot decode (an invalid opcode, too few bytes)    *)
(* ends the disassembly.                                                   *)
(***************************************************************************)
HexDigits == <<"0","1","2","3","4","5","6","7","8","9","a","b","c","d","e","f">>

RECURSIVE Hex(_)
\* lowercase hexadecimal digits of n >= 0
Hex(n) == IF n < 16 THEN <<HexDigits[n + 1]>>
          ELSE Hex(n \div 16) \o <<HexDigits[(n % 16) + 1]>>

\* an immediate operand as capstone prints it
Imm(n) == IF n > 9 THEN <<"0","x">> \o Hex(n) ELSE Hex(n)

NoInst == [ok |-> FALSE]

Inst(m, o, n) == [ok |-> TRUE, mnemonic |-> m, op_str |-> o, size |-> n]

Disasm1(arch, w) ==
  IF arch \in {"x86", "x64"} THEN
    IF w = <<>> THEN NoInst
    \* c3
    ELSE IF w[1] = \hC3 THEN Inst(<<"r","e","t">>, <<>>, 1)
    \* 58
    ELSE IF w[1] = \h58 THEN Inst(<<"p","o","p">>, IF arch = "x64" THEN <<"r","a","x">> ELSE <<"e","a","x">>, 1)
    \* 5b
    ELSE IF w[1] = \h5B THEN Inst(<<"p","o","p">>, IF arch = "x64" THEN <<"r","b","x">> ELSE <<"e","b","x">>, 1)
    \* cd ib
    ELSE IF w[1] = \hCD /\ Len(w) >= 2 THEN Inst(<<"i","n","t">>, Imm(w[2]), 2)
    \* 06 is push es in 32-bit mode and invalid in 64-bit mode
    ELSE IF w[1] = \h06 /\ arch = "x86" THEN Inst(<<"p","u","s","h">>, <<"e","s">>, 1)
    ELSE NoInst
  ELSE IF Len(w) < 4 THEN NoInst
  ELSE IF arch = "arm" THEN
    \* e8bd8010
    IF SubSeq(w, 1, 4) = <<\h10, \h80, \hBD, \hE8>> THEN Inst(<<"p","o","p">>, <<"{","r","4",","," ","p","c","}">>, 4)
    \* e12fff1e
    ELSE IF SubSeq(w, 1, 4) = <<\h1E, \hFF, \h2F, \hE1>> THEN Inst(<<"b","x">>, <<"l","r">>, 4)
    \* e1a00000
    ELSE IF SubSeq(w, 1, 4) = <<\h00, \h00, \hA0, \hE1>> THEN Inst(<<"m","o","v">>, <<"r","0",","," ","r","0">>, 4)
    ELSE NoInst
  ELSE IF arch = "aarch64" THEN
    \* d65f03c0
    IF SubSeq(w, 1, 4) = <<\hC0, \h03, \h5F, \hD6>> THEN Inst(<<"r","e","t">>, <<>>, 4)
    \* d4000001
    ELSE IF SubSeq(w, 1, 4) = <<\h01, \h00, \h00, \hD4>> THEN Inst(<<"s","v","c">>, <<"#","0">>, 4)
    \* d503201f
    ELSE IF SubSeq(w, 1, 4) = <<\h1F, \h20, \h03, \hD5>> THEN Inst(<<"n","o","p">>, <<>>, 4)
    ELSE NoInst
  ELSE NoInst

\* inst = f"{decoded.mnemonic} {decoded.op_str}".strip()
Render(d) == Strip(d.mnemonic \o <<" ">> \o d.op_str)

RECURSIVE Disasm(_, _)
\* dis_engine.disasm(window, address): the instructions of the window in
\* order, up to the first position that does not decode
Disasm(arch, w) ==
  LET d == Disasm1(arch, w)
  IN  IF ~d.ok THEN <<>> ELSE <<d>> \o Disasm(arch, SubSeq(w, d.size + 1, Len(w)))

RECURSIVE AccumulateKeepsPartial(_, _, _)
\* Accumulate without "if not found: continue": a window that ends before
\* any tail still yields what it has collected
AccumulateKeepsPartial(arch, disassembly, tmp) ==
  IF disassembly = <<>> THEN [found |-> tmp # <<>>, tmp |-> tmp]
  ELSE IF check_end(arch, Render(Head(disassembly)))
    THEN [found |-> TRUE, tmp |-> Append(tmp, Render(Head(disassembly)))]
  ELSE AccumulateKeepsPartial(arch, Tail(disassembly),
                              Append(tmp, Render(Head(disassembly))))

RECURSIVE Accumulate(_, _, _)
\* for decoded in disassembly: tmp grows by one rendered instruction at a
\* time and the loop breaks at the first one check_end accepts
Accumulate(arch, disassembly, tmp) ==
  IF disassembly = <<>> THEN [found |-> FALSE, tmp |-> tmp]
  ELSE IF check_end(arch, Render(Head(disassembly)))
    THEN [found |-> TRUE, tmp |-> Append(tmp, Render(Head(disassembly)))]
  ELSE Accumulate(arch, Tail(disassembly), Append(tmp, Render(Head(disassembly))))

\* the window of offset i: file_content[i:i+20]
Window(content, i) == Slice(content, i, i + WindowSize)

\* what the loop body makes of offset i
Candidate(arch, content, i) == Accumulate(arch, Disasm(arch, Window(content, i)), <<>>)

(***************************************************************************)
(* Dictionaries keep insertion order: a sequence of [address, instructions]*)
(***************************************************************************)
Values(d) == [k \in 1..Len(d) |-> d[k].instructions]

HasKey(d, a) == \E k \in 1..Len(d) : d[k].address = a

\* d[address] = instructions
Put(d, address, instructions) ==
  IF HasKey(d, address)
    THEN [k \in 1..Len(d) |->
            IF d[k].address = address
              THEN [address |-> address, instructions |-> instructions] ELSE d[k]]
    ELSE Append(d, [address |-> address, instructions |-> instructions])

\* StoreGadget without the test "tmp in self.gadgets.values()"
StoreGadgetNoDedup(d, address, cand) ==
  IF ~cand.found THEN d ELSE Put(d, address, cand.tmp)

\* "Only unique gadgets are stored"
StoreGadget(d, address, cand) ==
  IF ~cand.found THEN d
  ELSE IF In(cand.tmp, Values(d)) THEN d
  ELSE Put(d, address, cand.tmp)

\* the file offset alone, without the load bias
GadgetAddressNoBias(va, i) == i

\* the key a gadget found at offset i is stored under
GadgetAddress(va, i) == va + i

(***************************************************************************)
(* The report.                                                             *)
(***************************************************************************)
\* f"{address:#08x}": the width counts the 0x prefix
FormatAddress(address) ==
  <<"0","x">> \o Repeat(<<"0">>, FormatWidth - Len(<<"0","x">>) - Len(Hex(address))) \o Hex(address)

\* one line of the gadget section (without its newline)
GadgetLine(g) == FormatAddress(g.address) \o <<":"," ">> \o Join(<<";"," ">>, g.instructions)

NoFile == [written |-> FALSE, count |-> 0, lines |-> <<>>, appended |-> <<>>]

(***************************************************************************)
(* readelf -SW: the section table, one line per section.                   *)
(***************************************************************************)
SectionLine(n, a, o) == [name |-> n, addr |-> a, off |-> o]

\* index of the first line that contains section_name, 0 when there is none
FirstLine(sections, section_name) ==
  IF \E k \in 1..Len(sections) : Contains(sections[k].name, section_name)
    THEN CHOOSE k \in 1..Len(sections) :
           /\ Contains(sections[k].name, section_name)
           /\ \A m \in 1..(k - 1) : ~Contains(sections[m].name, section_name)
    ELSE 0

\* (va, start) of the section, (None, None) when it is not found
get_section_info(sections, section_name) ==
  LET k == FirstLine(sections, section_name)
  IN  IF k = 0 THEN <<None, None>> ELSE <<sections[k].addr, sections[k].off>>

\* the file offset of the section listed after section_name: (None, None)
\* when section_name is not listed; the line after the last section is not a
\* section line and splitting it raises IndexError
find_next_section_info(sections, section_name) ==
  LET k == FirstLine(sections, section_name)
  IN  IF k = 0 THEN [raised |-> None, value |-> <<None, None>>]
      ELSE IF k = Len(sections) THEN [raised |-> "IndexError", value |-> None]
      ELSE [raised |-> None,
            value |-> get_section_info(sections, sections[k + 1].name)[2]]

(***************************************************************************)
(* The files the model scans.  A file is its bytes together with what      *)
(* readelf prints about it: the machine of the header (None when the       *)
(* header has no Machine line) and the section table.                      *)
(***************************************************************************)
Families == {"x86", "arm", "aarch64"}

\* instruction encodings the generated files are made of
Units(family) ==
  IF family = "x86" THEN {<<\hC3>>, <<\h58>>, <<\h5B>>, <<\hCD>>, <<\h06>>}
  ELSE IF family = "arm"
    THEN {<<\h10, \h80, \hBD, \hE8>>, <<\h1E, \hFF, \h2F, \hE1>>, <<\h00, \h00, \hA0, \hE1>>}
  ELSE {<<\hC0, \h03, \h5F, \hD6>>, <<\h01, \h00, \h00, \hD4>>, <<\h1F, \h20, \h03, \hD5>>}

Contents(family) == {Concat(us) : us \in [1..MaxLen -> Units(family)]}

SampleContents(family) == {Repeat(u, MaxLen) : u \in Units(family)}

Machines(family) ==
  IF family = "x86" THEN {"x86-64", "80386"}
  ELSE IF family = "arm" THEN {"arm"} ELSE {"aarch64"}

Base == \h400000

\* .text at the start of the file, .fini right after the last byte
TextThenFini(content) ==
  << SectionLine(<<".","t","e","x","t">>, Base, 0),
     SectionLine(<<".","f","i","n","i">>, Base + Len(content), Len(content)) >>

\* the section listed after .text lies before it in the file
FiniBeforeText == << SectionLine(<<".","t","e","x","t">>, Base + 4, 4), SectionLine(<<".","f","i","n","i">>, Base, 0) >>

NoText == << SectionLine(<<".","i","n","i","t">>, Base, 0), SectionLine(<<".","f","i","n","i">>, Base + 4, 4) >>

TextLast == << SectionLine(<<".","i","n","i","t">>, Base, 0), SectionLine(<<".","t","e","x","t">>, Base + 4, 4) >>

\* .fini is also a part of the name of an earlier line
FiniArrayFirst(content) ==
  << SectionLine(<<".","f","i","n","i","_","a","r","r","a","y">>, Base + 8, 8),
     SectionLine(<<".","t","e","x","t">>, Base, 0),
     SectionLine(<<".","f","i","n","i">>, Base + Len(content), Len(content)) >>

File(f, m, c, s) == [family |-> f, machine |-> m, content |-> c, sections |-> s]

GeneratedFiles ==
  UNION {{File(f, m, c, TextThenFini(c)) : m \in Machines(f), c \in Contents(f)}
           : f \in Families}

OddSections(content) == {FiniBeforeText, NoText, TextLast, FiniArrayFirst(content)}

OddFiles ==
  UNION {UNION {{File(f, m, c, s) : m \in Machines(f), s \in OddSections(c)}
                  : c \in SampleContents(f)}
           : f \in Families}
  \cup {File("x86", m, c, TextThenFini(c)) :
          m \in {"riscv", None}, c \in SampleContents("x86")}

\* a file of WindowSize bytes with the one-byte ret at offset 10, scanned
\* with start = 0 and end = 15
CraftedContents ==
  {Repeat(<<\h06>>, 8) \o a \o b \o <<\hC3>> \o Repeat(g, WindowSize - 11) :
     a \in Units("x86"), b \in Units("x86"), g \in {<<\h06>>, <<\hCD>>}}

CraftedSections == << SectionLine(<<".","t","e","x","t">>, Base, 0), SectionLine(<<".","f","i","n","i">>, Base + 15, 15) >>

CraftedFiles == {File("x86", "x86-64", c, CraftedSections) : c \in CraftedContents}

Files == GeneratedFiles \cup OddFiles \cup CraftedFiles

(***************************************************************************)
(* "Can set the following parameters manually": the class attributes arch, *)
(* start, end and VA.  A number that is set is a 1-tuple and one that is   *)
(* None the empty tuple.                                                   *)
(***************************************************************************)
Unset == <<>>

ClassAttrs(a, s, e, v) == [arch |-> a, start |-> s, end |-> e, VA |-> v]

Defaults == ClassAttrs(None, Unset, Unset, Unset)

AllSupplied == ClassAttrs("x64", <<0>>, <<15>>, <<Base>>)

ClassConfigs ==
  { Defaults, AllSupplied,
    ClassAttrs("x64", Unset, Unset, Unset),
    ClassAttrs("mips", Unset, Unset, Unset),
    ClassAttrs(None, <<0>>, Unset, <<Base>>) }

\* the names a lookup on a new ROP object resolves: the class attributes
\* and what __init__ has assigned before set_offsets runs
AttributesBeforeSetOffsets ==
  {"arch", "start", "end", "VA", "supported_archs", "sections", "dis_engine",
   "gadgets", "interesting_gadget", "patterns_x86", "patterns_x64",
   "patterns_arm", "patterns_aarch64", "binary_name", "instruction_size", "pattern"}

ReadelfOutcomes == {"ok", "FileNotFoundError", "stderr"}

VARIABLES
  binary,              \* the file named by sys.argv[1]
  cls,                 \* ROP.arch, ROP.start, ROP.end, ROP.VA
  readelf,             \* what running readelf ends in
  pc,                  \* where the process is
  runs,                \* ROP objects built so far
  arch, instruction_size, pattern, va, start, end,   \* attributes of the ROP object
  i,                   \* the loop variable of find_gadgets
  item,                \* position of check_interesting in gadgets.items()
  to_write,            \* the lines check_interesting has collected
  gadgets,             \* ROP.gadgets
  interesting_gadget,  \* ROP.interesting_gadget
  file,                \* <binary_name>_gadgets.asm
  previous,            \* that file as the previous run left it
  hooks,               \* the calls of make_function, in order
  emitted,             \* the lines check_interesting has put in to_write, in order
  decoded,             \* offsets whose window this run has disassembled
  resolved,            \* readelf -SW lookups of this run
  error,               \* how this run ended early, None otherwise
  asked                \* the last call of check_end made on its own

vars == <<binary, cls, readelf, pc, runs, arch, instruction_size, pattern, va,
          start, end, i, item, to_write, gadgets, interesting_gadget, file, previous,
          hooks, emitted, decoded, resolved, error, asked>>

object == <<arch, instruction_size, pattern, va, start, end>>

inputs == <<binary, cls, readelf, asked>>

NotAsked == [asked |-> FALSE, instruction |-> <<>>, result |-> FALSE]

\* the class attributes override only x86 files in the model: the decoder
\* table holds each family's own encodings
Compatible(b, c, r) ==
  \/ c = Defaults /\ r = "ok"
  \/ b.family = "x86" /\ b.content \in SampleContents("x86")
       /\ b.sections = TextThenFini(b.content) /\ b.machine \in {"x86-64", "80386"}

Init ==
  /\ \E b \in Files, c \in ClassConfigs, r \in ReadelfOutcomes :
       /\ Compatible(b, c, r)
       /\ binary = b /\ cls = c /\ readelf = r
  /\ pc = "start"
  /\ runs = 0
  /\ arch = None /\ instruction_size = None /\ pattern = None
  /\ va = None /\ start = None /\ end = None
  /\ i = None
  /\ item = None /\ to_write = <<>>
  /\ gadgets = <<>>
  /\ interesting_gadget = <<>>
  /\ file = NoFile
  /\ previous = NoFile
  /\ hooks = <<>>
  /\ emitted = <<>>
  /\ decoded = {}
  /\ resolved = 0
  /\ error = None
  /\ asked = NotAsked

(***************************************************************************)
(* __init__: set_arch, set_mode, set_offsets.                              *)
(***************************************************************************)
\* set_arch: the architecture, or how the run ends
set_arch ==
  IF cls.arch # None THEN [error |-> None, arch |-> cls.arch]
  ELSE IF readelf # "ok" THEN [error |-> "exit", arch |-> None]
  ELSE IF binary.machine = None THEN [error |-> "exit", arch |-> None]
  ELSE IF binary.machine \notin DOMAIN supported_archs
    THEN [error |-> "KeyError", arch |-> None]
  ELSE [error |-> None, arch |-> supported_archs[binary.machine]]

Mode(e, n, p) == [error |-> e, instruction_size |-> n, pattern |-> p]

\* set_mode: instruction_size and pattern of the architecture
set_mode(a) ==
  IF a = "x64" THEN Mode(None, 1, patterns_x64)
  ELSE IF a = "x86" THEN Mode(None, 1, patterns_x86)
  ELSE IF a = "arm" THEN Mode(None, 4, patterns_arm)
  ELSE IF a = "aarch64" THEN Mode(None, 4, patterns_aarch64)
  ELSE Mode("exit", None, None)

Offsets(e, r, s, n, v) == [error |-> e, resolved |-> r, start |-> s, end |-> n, va |-> v]

\* set_offsets: start, end and va of the object, or how the run ends
set_offsets ==
  IF cls.start # Unset /\ cls.end # Unset /\ cls.VA # Unset THEN
    \* this branch prints self.va
    IF "va" \notin AttributesBeforeSetOffsets
      THEN Offsets("AttributeError", 0, cls.start[1], cls.end[1], None)
      ELSE Offsets(None, 0, cls.start[1], cls.end[1], cls.VA[1])
  ELSE IF readelf # "ok" THEN Offsets("exit", 1, None, None, None)
  ELSE
    LET ret  == get_section_info(binary.sections, <<".","t","e","x","t">>)
        next == find_next_section_info(binary.sections, <<".","t","e","x","t">>)
    IN  IF next.raised # None THEN Offsets(next.raised, 1, ret[2], None, ret[1])
        \* self.va -= self.start with both None
        ELSE IF FirstLine(binary.sections, <<".","t","e","x","t">>) = 0
          THEN Offsets("TypeError", 1, None, None, None)
        ELSE Offsets(None, 1, ret[2], next.value, ret[1] - ret[2])

\* r = ROP(filename)
Construct ==
  /\ pc = "start"
  /\ LET a == set_arch
         m == IF a.error = None THEN set_mode(a.arch) ELSE Mode(a.error, None, None)
         o == IF m.error = None THEN set_offsets
              ELSE Offsets(m.error, 0, None, None, None)
     IN  /\ arch' = a.arch
         /\ instruction_size' = m.instruction_size
         /\ pattern' = m.pattern
         /\ start' = o.start /\ end' = o.end /\ va' = o.va
         /\ resolved' = o.resolved
         /\ error' = o.error
         /\ pc' = IF o.error = None THEN "built" ELSE "exit"
  /\ runs' = runs + 1
  /\ decoded' = {}
  /\ i' = None
  /\ UNCHANGED <<inputs, item, to_write, gadgets, interesting_gadget, file, previous,
                 hooks, emitted>>

(***************************************************************************)
(* find_gadgets.                                                           *)
(***************************************************************************)
\* first offset past the scan: range(start, end + instruction_size * 2, instruction_size)
ScanLimit(e, size) == e + size * 2

\* the file is read and the loop starts
OpenFile ==
  /\ pc = "built"
  /\ i' = start
  /\ pc' = "scan"
  /\ UNCHANGED <<inputs, runs, object, item, to_write, gadgets, interesting_gadget,
                 file, previous, hooks, emitted, decoded, resolved, error>>

\* one iteration of the loop
ScanOffset ==
  /\ pc = "scan"
  /\ i < ScanLimit(end, instruction_size)
  /\ gadgets' = StoreGadget(gadgets, GadgetAddress(va, i),
                            Candidate(arch, binary.content, i))
  /\ decoded' = decoded \cup {i}
  /\ i' = i + instruction_size
  /\ UNCHANGED <<inputs, pc, runs, object, item, to_write, interesting_gadget, file,
                 previous, hooks, emitted, resolved, error>>

\* after the loop: the gadget file is written anew
WriteGadgets ==
  /\ pc = "scan"
  /\ i >= ScanLimit(end, instruction_size)
  /\ file' = [written |-> TRUE, count |-> Len(gadgets),
              lines |-> [k \in 1..Len(gadgets) |-> GadgetLine(gadgets[k])],
              appended |-> <<>>]
  /\ pc' = "check_interesting"
  /\ UNCHANGED <<inputs, runs, object, i, item, to_write, gadgets, interesting_gadget,
                 previous, hooks, emitted, decoded, resolved, error>>

(***************************************************************************)
(* check_interesting.                                                      *)
(***************************************************************************)
\* the if of the inner loop without "i not in self.interesting_gadget.values()"
SelectedAnyMatch(p, g, ig) == re_match(p, Join(<<";"," ">>, g.instructions))

\* the if of the inner loop
Selected(p, g, ig) ==
  re_match(p, Join(<<";"," ">>, g.instructions)) /\ ~In(g.instructions, Values(ig))

\* the body of the inner loop for gadget g and pattern p
Flag(acc, g, p) ==
  IF Selected(p, g, acc.interesting_gadget)
    THEN [interesting_gadget |-> Put(acc.interesting_gadget, g.address, g.instructions),
          hooks    |-> Append(acc.hooks, [address |-> g.address, gadget_list |-> g.instructions]),
          to_write |-> Append(acc.to_write,
                              FormatAddress(g.address) \o <<":"," ">> \o Join(<<";"," ">>, g.instructions))]
    ELSE acc

RECURSIVE OverPatterns(_, _, _)
\* for pattern in self.pattern
OverPatterns(acc, g, ps) ==
  IF ps = <<>> THEN acc ELSE OverPatterns(Flag(acc, g, Head(ps)), g, Tail(ps))

\* what the pass over the store has done so far
Progress == [interesting_gadget |-> interesting_gadget, hooks |-> hooks,
             to_write |-> to_write]

\* check_interesting begins: no templates for the architecture, or to_write = ""
BeginInteresting ==
  /\ pc = "check_interesting"
  /\ IF pattern = None
       THEN pc' = "done" /\ UNCHANGED <<item, to_write>>
       ELSE pc' = "select" /\ item' = 1 /\ to_write' = <<>>
  /\ UNCHANGED <<inputs, runs, object, i, gadgets, interesting_gadget, file, previous,
                 hooks, emitted, decoded, resolved, error>>

\* one iteration of the outer loop: the gadget at position item of the store
\* against every template
SelectGadget ==
  /\ pc = "select"
  /\ item <= Len(gadgets)
  /\ LET r == OverPatterns(Progress, gadgets[item], pattern)
     IN  /\ interesting_gadget' = r.interesting_gadget
         /\ hooks' = r.hooks
         /\ to_write' = r.to_write
         /\ emitted' = emitted \o SubSeq(r.to_write, Len(to_write) + 1, Len(r.to_write))
  /\ item' = item + 1
  /\ UNCHANGED <<inputs, pc, runs, object, i, gadgets, file, previous, decoded,
                 resolved, error>>

\* after the loop: the interesting section is appended to the gadget file
WriteInteresting ==
  /\ pc = "select"
  /\ item > Len(gadgets)
  /\ file' = IF Len(interesting_gadget) > 0
               THEN [file EXCEPT !.appended = Append(@, to_write)]
               ELSE file
  /\ pc' = "done"
  /\ UNCHANGED <<inputs, runs, object, i, item, to_write, gadgets, interesting_gadget,
                 previous, hooks, emitted, decoded, resolved, error>>

(***************************************************************************)
(* The same process builds a ROP object for the same file again and calls  *)
(* initialize(); the class attributes gadgets and interesting_gadget stay. *)
(***************************************************************************)
Rerun ==
  /\ pc = "done"
  /\ runs < MaxRuns
  /\ previous' = file
  /\ pc' = "start"
  /\ UNCHANGED <<inputs, runs, object, i, item, to_write, gadgets, interesting_gadget,
                 file, hooks, emitted, decoded, resolved, error>>

Next ==
  \/ Construct
  \/ OpenFile
  \/ ScanOffset
  \/ WriteGadgets
  \/ BeginInteresting
  \/ SelectGadget
  \/ WriteInteresting
  \/ Rerun

Spec == Init /\ [][Next]_vars

(***************************************************************************)
(* check_end called on its own, for each architecture it can be configured *)
(* for, on instruction texts of all four architectures.                    *)
(***************************************************************************)
ProbeInstructions ==
  { <<"r","e","t">>, <<"s","y","s","c","a","l","l">>, <<"i","n","t"," ","0","x","8","0">>, <<"c","a","l","l"," ","r","a","x">>, <<"c","a","l","l"," ","e","a","x">>, <<"s","v","c"," ","#","0">>, <<"b","x"," ","l","r">>,
    <<"p","o","p"," ","{","r","4",","," ","p","c","}">>, <<"c","a","l","l"," ","r","b","x">>, <<"c","a","l","l"," ","r","8">>, <<"c","a","l","l"," ","e","b","x">>, <<"c","a","l","l"," ","q","w","o","r","d"," ","p","t","r"," ","[","r","a","x","]">>,
    <<"c","a","l","l"," ","0","x","4","0","0","0","0","0">>, <<"b","l","x"," ","r","3">>, <<"b","l"," ","#","0","x","1","0">>, <<"b"," ","#","4">>, <<"b","x"," ","r","1","0">>, <<"s","w","i"," ","#","0">>, <<"p","o","p"," ","{","p","c","}">>,
    <<"p","o","p"," ","{","r","4",","," ","r","5",","," ","p","c","}">>, <<"p","o","p"," ","r","a","x">>, <<"p","o","p"," ","e","a","x">>, <<"n","o","p">>, <<"m","o","v"," ","r","0",","," ","r","0">>, <<"i","n","t"," ","0","x","c","3">>,
    <<"p","u","s","h"," ","e","s">>, <<"j","m","p"," ","r","a","x">>, <<"j","m","p"," ","e","a","x">>, <<"r","e","t"," ","4">>, <<"r","e","t","n">>, <<"s","t","i">>, <<"l","e","a","v","e">> }

InitProbe ==
  /\ binary = File("x86", "x86-64", Repeat(<<\hC3>>, MaxLen),
                   TextThenFini(Repeat(<<\hC3>>, MaxLen)))
  /\ cls = Defaults /\ readelf = "ok"
  /\ pc = "start"
  /\ runs = 0
  /\ arch \in Archs
  /\ instruction_size = None /\ pattern = None
  /\ va = None /\ start = None /\ end = None
  /\ i = None
  /\ item = None /\ to_write = <<>>
  /\ gadgets = <<>>
  /\ interesting_gadget = <<>>
  /\ file = NoFile
  /\ previous = NoFile
  /\ hooks = <<>>
  /\ emitted = <<>>
  /\ decoded = {}
  /\ resolved = 0
  /\ error = None
  /\ asked = NotAsked

\* r.check_end(instruction)
CallCheckEnd ==
  /\ \E instruction \in ProbeInstructions :
       asked' = [asked |-> TRUE, instruction |-> instruction,
                 result |-> check_end(arch, instruction)]
  /\ UNCHANGED <<binary, cls, readelf, pc, runs, object, i, item, to_write, gadgets,
                 interesting_gadget, file, previous, hooks, emitted, decoded, resolved,
                 error>>

NextProbe == CallCheckEnd

SpecProbe == InitProbe /\ [][NextProbe]_vars

(***************************************************************************)
(* The properties.                                                         *)
(***************************************************************************)
\* number of positions of s that hold x
Occurrences(x, s) == Cardinality({k \in 1..Len(s) : s[k] = x})

\* the window of offset j yields the instruction sequence seq
Yields(j, seq) ==
  Candidate(arch, binary.content, j).found /\ Candidate(arch, binary.content, j).tmp = seq

\* the scan of this run has started
Scanning == pc \in {"scan", "check_interesting", "select", "done"}

\* C1: in a run that started from an empty store, no two entries of the
\* store hold equal instruction sequences, every sequence a scanned window
\* yields is stored, and it is stored under va + i for the smallest scanned
\* offset i that yields it (a later offset that yields it adds no entry and
\* replaces none).
C1_FirstOccurrenceKept ==
  (runs = 1 /\ Scanning) =>
    /\ \A a, b \in 1..Len(gadgets) :
         a # b => /\ gadgets[a].instructions # gadgets[b].instructions
                  /\ gadgets[a].address # gadgets[b].address
    /\ \A k \in 1..Len(gadgets) :
         \E j \in decoded :
           /\ Yields(j, gadgets[k].instructions)
           /\ gadgets[k].address = va + j
           /\ \A m \in decoded : Yields(m, gadgets[k].instructions) => j <= m
    /\ \A j \in decoded :
         Candidate(arch, binary.content, j).found
           => In(Candidate(arch, binary.content, j).tmp, Values(gadgets))

\* C1 witness: two scanned offsets yield the same sequence and the store
\* holds it under the smaller one.
C1_Witness ==
  /\ runs = 1 /\ pc = "check_interesting"
  /\ \E j, m \in decoded :
       /\ j < m
       /\ Candidate(arch, binary.content, j).found
       /\ Yields(m, Candidate(arch, binary.content, j).tmp)
       /\ In([address |-> va + j, instructions |-> Candidate(arch, binary.content, j).tmp],
             gadgets)

\* the instructions of the window of offset j, rendered
Rendered(j) ==
  LET d == Disasm(arch, Window(binary.content, j))
  IN  [k \in 1..Len(d) |-> Render(d[k])]

\* no instruction of the window of offset j is accepted by check_end
NoTail(j) == \A k \in 1..Len(Rendered(j)) : ~check_end(arch, Rendered(j)[k])

\* C2: for every gadget of the store check_end accepts the last instruction
\* and rejects every earlier one, whatever the architecture; a scanned
\* window none of whose instructions check_end accepts (a window of zero
\* instructions included) has put nothing in the store.
C2_TailOnly ==
  /\ \A k \in 1..Len(gadgets) :
       /\ Len(gadgets[k].instructions) >= 1
       /\ check_end(arch, Last(gadgets[k].instructions))
       /\ \A n \in 1..(Len(gadgets[k].instructions) - 1) :
            ~check_end(arch, gadgets[k].instructions[n])
  /\ Scanning =>
       \A j \in decoded : NoTail(j) => ~HasKey(gadgets, va + j)

\* C2 witness: on arm, a stored gadget of two instructions, a scanned window
\* with instructions but no tail and a scanned window of zero instructions.
C2_Witness ==
  /\ arch = "arm" /\ pc = "check_interesting"
  /\ \E k \in 1..Len(gadgets) : Len(gadgets[k].instructions) >= 2
  /\ \E j \in decoded : Rendered(j) # <<>> /\ NoTail(j)
  /\ \E j \in decoded : Rendered(j) = <<>>

\* one or more register pops followed by ret
IsPopRet(instructions) ==
  /\ Len(instructions) >= 2
  /\ Last(instructions) = <<"r","e","t">>
  /\ \A k \in 1..(Len(instructions) - 1) :
       Len(instructions[k]) > 4 /\ SubSeq(instructions[k], 1, 4) = <<"p","o","p"," ">>

\* C3: on x86 and on x64, after check_interesting every gadget of the store
\* that is one or more register pops followed by ret is in
\* interesting_gadget, under its address, and exactly once.
C3_PopRetFlaggedOnce ==
  (pc = "done" /\ arch \in {"x86", "x64"}) =>
    \A k \in 1..Len(gadgets) :
      IsPopRet(gadgets[k].instructions) =>
        /\ In(gadgets[k], interesting_gadget)
        /\ Occurrences(gadgets[k].instructions, Values(interesting_gadget)) = 1

\* C4: a second run of the same process over the same input leaves the same
\* report as the run before it: the same count, the same gadget lines in
\* the same order and the same interesting section.
C4_SameReport == (pc = "done" /\ runs >= 2) => file = previous

\* C5: when the code range has start > end the run ends in an error before
\* any offset is scanned: no window decoded, no gadget stored, no report.
C5_InvertedRangeAborts ==
  (pc # "start" /\ set_offsets.error = None /\ set_offsets.start > set_offsets.end) =>
    /\ pc = "exit"
    /\ decoded = {}
    /\ gadgets = <<>>
    /\ ~file.written

\* the file has WindowSize bytes and its only instruction that check_end
\* accepts is the one-byte ret at offset 10; it is scanned on x64 with
\* start = 0, end = 15 and step 1 from an empty store, and the scan is over
Crafted ==
  /\ runs = 1 /\ pc \in {"check_interesting", "select", "done"}
  /\ arch = "x64" /\ start = 0 /\ end = 15 /\ instruction_size = 1
  /\ Len(binary.content) = WindowSize
  /\ \A j \in 0..(WindowSize - 1) :
       LET d == Disasm1("x64", Slice(binary.content, j, WindowSize))
       IN  IF j = 10 THEN d.ok /\ Render(d) = <<"r","e","t">> /\ d.size = 1
           ELSE ~(d.ok /\ check_end("x64", Render(d)))

\* C6 as stated: the store holds the gadget ["ret"] under va + 10 and
\* nothing else.
C6_ExactlyOneGadget ==
  Crafted => gadgets = <<[address |-> va + 10, instructions |-> <<<<"r","e","t">>>>]>>

\* C6 amended: the store holds ["ret"] under va + 10; every other entry is
\* stored under va + i for an offset i < 10 whose window decodes up to that
\* ret, and holds more than one instruction, the last of them ret; there is
\* one entry for each distinct sequence so obtained.
C6_RetAndItsPrefixes ==
  Crafted =>
    /\ In([address |-> va + 10, instructions |-> <<<<"r","e","t">>>>], gadgets)
    /\ \A k \in 1..Len(gadgets) :
         /\ gadgets[k].address \in va..(va + 10)
         /\ Last(gadgets[k].instructions) = <<"r","e","t">>
         /\ Yields(gadgets[k].address - va, gadgets[k].instructions)
         /\ (gadgets[k].address = va + 10) <=> (Len(gadgets[k].instructions) = 1)
    /\ Len(gadgets) =
         Cardinality({Candidate(arch, binary.content, j).tmp :
                        j \in {m \in 0..10 : Candidate(arch, binary.content, m).found}})

\* C6 witness: the crafted scan is over and the store holds more than the
\* gadget of offset 10.
C6_Witness == Crafted /\ Len(gadgets) >= 2 /\ HasKey(gadgets, va + 10)

\* architecture, start, end and VA are all set on the class
Supplied ==
  cls.arch # None /\ cls.start # Unset /\ cls.end # Unset /\ cls.VA # Unset

\* C7: with architecture, start, end and VA all supplied the object is
\* built without a lookup by readelf and without error, and the scan uses
\* the supplied values: it visits start, start + step, ... below
\* end + 2 * step and stores every gadget under VA plus its offset.
C7_SuppliedValuesUsed ==
  (Supplied /\ pc # "start") =>
    /\ error = None
    /\ resolved = 0
    /\ start = cls.start[1] /\ end = cls.end[1]
    /\ \A j \in decoded :
         j >= start /\ j < end + 2 * instruction_size /\ (j - start) % instruction_size = 0
    /\ \A k \in 1..Len(gadgets) :
         \E j \in decoded : gadgets[k].address = cls.VA[1] + j

\* C8: check_end configured for one architecture rejects the tails that
\* belong only to another architecture.
C8_ArchitectureIsolation ==
  asked.asked =>
    /\ (arch = "arm" /\ asked.instruction \in {<<"s","y","s","c","a","l","l">>, <<"i","n","t"," ","0","x","8","0">>, <<"c","a","l","l"," ","r","a","x">>, <<"c","a","l","l"," ","e","a","x">>})
         => ~asked.result
    /\ (arch = "x86" /\ asked.instruction \in {<<"s","y","s","c","a","l","l">>, <<"c","a","l","l"," ","r","a","x">>, <<"s","v","c"," ","#","0">>, <<"b","x"," ","l","r">>})
         => ~asked.result
    /\ (arch = "x64"
          /\ asked.instruction \in {<<"i","n","t"," ","0","x","8","0">>, <<"c","a","l","l"," ","e","a","x">>, <<"s","v","c"," ","#","0">>, <<"b","x"," ","l","r">>, <<"p","o","p"," ","{","r","4",","," ","p","c","}">>})
         => ~asked.result
    /\ (arch = "aarch64"
          /\ asked.instruction \in {<<"s","y","s","c","a","l","l">>, <<"i","n","t"," ","0","x","8","0">>, <<"c","a","l","l"," ","r","a","x">>, <<"b","x"," ","l","r">>})
         => ~asked.result

\* C8 witness: check_end configured for arm has been asked about syscall.
C8_Witness ==
  asked.asked /\ arch = "arm" /\ asked.instruction = <<"s","y","s","c","a","l","l">> /\ ~asked.result

\* the lines of the report that start with an address
ReportLines == file.lines \o Concat(file.appended)

\* 0x and then at least 8 lowercase hexadecimal digits
EightHexDigits(line) ==
  /\ Len(line) >= 10
  /\ SubSeq(line, 1, 2) = <<"0","x">>
  /\ \A k \in 3..10 : line[k] \in Range(HexDigits)

\* C9: every address of the report, in the gadget section and in the
\* interesting section, is 0x followed by at least 8 hexadecimal digits.
C9_EightHexDigits == \A k \in 1..Len(ReportLines) : EightHexDigits(ReportLines[k])

\* the templates of the architecture that match the gadget
Matching(g) ==
  {k \in 1..Len(pattern) : re_match(pattern[k], Join(<<";"," ">>, g.instructions))}

\* C10: after check_interesting a gadget of the store that more than one
\* template matches is in interesting_gadget once, make_function has been
\* called for it once with its address and instructions, and one line has
\* been written for it; every entry of interesting_gadget is an entry of
\* the store, with the same address and instructions.
C10_FlaggedOnce ==
  /\ (pc = "done" /\ pattern # None) =>
       \A k \in 1..Len(gadgets) :
         Cardinality(Matching(gadgets[k])) >= 2 =>
           /\ Occurrences(gadgets[k], interesting_gadget) = 1
           /\ Occurrences(gadgets[k].instructions, Values(interesting_gadget)) = 1
           /\ Occurrences([address |-> gadgets[k].address,
                           gadget_list |-> gadgets[k].instructions], hooks) = 1
           /\ Occurrences(GadgetLine(gadgets[k]), emitted) = 1
  /\ \A k \in 1..Len(interesting_gadget) : In(interesting_gadget[k], gadgets)

\* C10 witness: check_interesting has run over a store with a gadget that
\* two templates match.
C10_Witness ==
  /\ pc = "done" /\ pattern # None
  /\ \E k \in 1..Len(gadgets) :
       Cardinality(Matching(gadgets[k])) >= 2 /\ In(gadgets[k], interesting_gadget)

=============================================================================
